---------------------------- MODULE Spec2Model ----------------------------
(***************************************************************************)
(* Model of PPT_Creator: the chat handler of src/app.py and the deck       *)
(* builder create_ppt_file of src/logic.py (with generate_image and        *)
(* fetch_image).                                                           *)
(*                                                                         *)
(* Lengths are in thousandths of an inch (Inches(0.03) is 30), font sizes  *)
(* and paragraph spacings in points.  A text is kept by what the code      *)
(* reads of it: a theme colour is its sequence of characters, a bullet is  *)
(* its leading whitespace, its core and its trailing whitespace, a title   *)
(* is its length.                                                          *)
(***************************************************************************)
EXTENDS Integers, Sequences, FiniteSets, TLC

VARIABLES
    ppt_structure,   \* st.session_state.ppt_structure: NoDraft or the stored response
    response,        \* the handler's local: what generate_slide_content returned
    display,         \* what the handler last showed the user: [kind, content]
    pc,              \* position of the control: "idle" or a place in create_ppt_file
    slide_data,      \* create_ppt_file's argument
    theme_color,     \* create_ppt_file's argument: [isStr, chars]
    include_images,  \* create_ppt_file's argument
    data,            \* json.loads(slide_data)
    NAVY_BLUE,       \* the resolved primary colour
    slides,          \* prs.slides: the slides built so far
    i,               \* index of the content slide being built (0-based)
    img_url,         \* generate_image's result for slide i
    img_data,        \* fetch_image's result for slide i
    attempt,         \* fetch_image: the loop variable, attempts finished so far
    waits,           \* fetch_image: the time.sleep arguments so far, in order
    downloads,       \* fetch_image: the requests.get calls made for slide i
    requests,        \* network requests issued by the current create_ppt_file call
    pexels_api_key,  \* logic.pexels_api_key is set (read from the environment at import)
    files,           \* temp_img_<k>.jpg files present on disk: the set of k
    saved,           \* the current call has written its deck file
    result           \* create_ppt_file's outcome: "running", "None", "filename", "exception"

vars == <<ppt_structure, response, display, pc, slide_data, theme_color, include_images,
          data, NAVY_BLUE, slides, i, img_url, img_data, attempt, waits,
          downloads, requests, pexels_api_key, files, saved, result>>

--------------------------------------------------------------------------
(* Bounds of the model. *)

MaxColorLen == 7
MaxToc == 9
MaxSlides == 2
MaxBullets == 2
MaxPad == 1

--------------------------------------------------------------------------
(* Texts and the theme colour: logic.py 167-178. *)

Min(a, b) == IF a < b THEN a ELSE b

HexDigits == <<"0", "1", "2", "3", "4", "5", "6", "7", "8", "9",
               "A", "B", "C", "D", "E", "F">>
LowerHexDigits == <<"0", "1", "2", "3", "4", "5", "6", "7", "8", "9",
                    "a", "b", "c", "d", "e", "f">>

IsHexDigit(c) == \E k \in 1..16 : HexDigits[k] = c \/ LowerHexDigits[k] = c

HexVal(c) == (CHOOSE k \in 1..16 : HexDigits[k] = c \/ LowerHexDigits[k] = c) - 1

\* str.lstrip('#'): every leading '#' is removed.
RECURSIVE LStripHash(_)
LStripHash(s) ==
    IF s # <<>> /\ Head(s) = "#" THEN LStripHash(Tail(s)) ELSE s

\* s[a:a+2] of Python (0-based a): clamped to the end of s.
Slice2(s, a) == SubSeq(s, a + 1, Min(a + 2, Len(s)))

\* str.strip() on a sequence of characters, for the blank " ".
RECURSIVE LStripSp(_)
LStripSp(s) == IF s # <<>> /\ Head(s) = " " THEN LStripSp(Tail(s)) ELSE s
RECURSIVE RStripSp(_)
RStripSp(s) ==
    IF s # <<>> /\ s[Len(s)] = " " THEN RStripSp(SubSeq(s, 1, Len(s) - 1)) ELSE s

\* The digits of an unsigned hexadecimal literal of at most two characters.
HexDigitsVal(d) ==
    IF Len(d) = 1 /\ IsHexDigit(d[1]) THEN [ok |-> TRUE, val |-> HexVal(d[1])]
    ELSE IF Len(d) = 2 /\ IsHexDigit(d[1]) /\ IsHexDigit(d[2])
         THEN [ok |-> TRUE, val |-> 16 * HexVal(d[1]) + HexVal(d[2])]
         ELSE [ok |-> FALSE, val |-> 0]

\* int(s, 16) for a text of at most two characters: surrounding blanks are
\* ignored, one sign may lead, at least one digit must follow; ok = FALSE is
\* ValueError.
PyIntHex(s) ==
    LET t == RStripSp(LStripSp(s))
    IN  IF t # <<>> /\ Head(t) = "-"
        THEN LET r == HexDigitsVal(Tail(t)) IN [ok |-> r.ok, val |-> 0 - r.val]
        ELSE IF t # <<>> /\ Head(t) = "+" THEN HexDigitsVal(Tail(t))
        ELSE HexDigitsVal(t)

\* hex_to_rgb: the three two-character slices at 0, 2, 4 of the text without
\* its leading '#'s, each through int(.., 16).
hex_to_rgb(hex_color) ==
    LET h == LStripHash(hex_color)
    IN  <<PyIntHex(Slice2(h, 0)), PyIntHex(Slice2(h, 2)), PyIntHex(Slice2(h, 4))>>

\* RGBColor(r, g, b) raises ValueError unless each is an integer in 0..255.
RGBColorOk(t) == \A k \in 1..3 : t[k].ok /\ t[k].val \in 0..255

FallbackNavy == <<0, 51, 102>>
DARK_GRAY == <<80, 80, 80>>
WHITE == <<255, 255, 255>>

\* The try/except around hex_to_rgb and RGBColor: any exception (a value
\* that is no string has no lstrip; a slice that is no number; a component
\* out of range) gives the fallback.
ResolveTheme(tc) ==
    IF ~tc.isStr THEN FallbackNavy
    ELSE LET t == hex_to_rgb(tc.chars)
         IN  IF RGBColorOk(t) THEN <<t[1].val, t[2].val, t[3].val>>
             ELSE FallbackNavy

Str(chars) == [isStr |-> TRUE, chars |-> chars]
NotAString == [isStr |-> FALSE, chars |-> <<>>]

--------------------------------------------------------------------------
(* Shapes, paragraphs and slides as python-pptx builds them. *)

\* A text: blanks before, the length of what str.strip() keeps, blanks after,
\* and which text the core is.
Word(w, n) == [lead |-> 0, core |-> n, trail |-> 0, word |-> w]

\* A fresh text frame holds one empty paragraph; add_paragraph appends.
EmptyPara ==
    [text |-> Word("", 0), glyph |-> FALSE, size |-> 0, color |-> <<0, 0, 0>>,
     space_before |-> 0, space_after |-> 0]

Para(text, glyph, size, color, before, after) ==
    [text |-> text, glyph |-> glyph, size |-> size, color |-> color,
     space_before |-> before, space_after |-> after]

Rectangle(x, y, w, h, fill) ==
    [type |-> "Rectangle", x |-> x, y |-> y, w |-> w, h |-> h,
     fill |-> fill, paras |-> <<>>]

TextBox(x, y, w, h, paras) ==
    [type |-> "TextBox", x |-> x, y |-> y, w |-> w, h |-> h,
     fill |-> <<0, 0, 0>>, paras |-> paras]

\* add_picture(file, x, y, width=w): the height follows the image (0 here);
\* fill is the colour of the 2pt border line.
Picture(x, y, w, border) ==
    [type |-> "Picture", x |-> x, y |-> y, w |-> w, h |-> 0,
     fill |-> border, paras |-> <<>>]

NoBackground == <<>>

Slide(kind, shapes, background) ==
    [kind |-> kind, shapes |-> shapes, background |-> background]

\* The slide with one more shape.
AddShape(s, shape) == [s EXCEPT !.shapes = Append(@, shape)]

\* slides with its last slide replaced.
SetLast(ss, s) == [ss EXCEPT ![Len(ss)] = s]

--------------------------------------------------------------------------
(* Bullets: a text is [lead, core, trail, word]: blanks before, the length *)
(* of what str.strip() keeps, blanks after, and which text the core is.    *)

Bullet(lead, core, trail) ==
    [lead |-> lead, core |-> core, trail |-> trail, word |-> "text"]

\* len(b)
PyLen(b) == b.lead + b.core + b.trail

\* b.strip()
Strip(b) == [b EXCEPT !.lead = 0, !.trail = 0]

\* "(No content generated)": 22 characters.
NoContentBullet ==
    [lead |-> 0, core |-> 22, trail |-> 0, word |-> "(No content generated)"]

RECURSIVE SumLen(_)
SumLen(bs) == IF bs = <<>> THEN 0 ELSE PyLen(Head(bs)) + SumLen(Tail(bs))

NonBlank(b) == Strip(b).core > 0

\* logic.py 386-388: [b.strip() for b in content if b.strip()], and the
\* placeholder when nothing is left.
ContentBullets(content) ==
    LET kept == SelectSeq(content, NonBlank)
        stripped == [k \in DOMAIN kept |-> Strip(kept[k])]
    IN  IF stripped = <<>> THEN <<NoContentBullet>> ELSE stripped

--------------------------------------------------------------------------
(* Sizing rules. *)

\* logic.py 227-232
TitleFont(len) == IF len > 40 THEN 32 ELSE IF len > 25 THEN 38 ELSE 44

\* logic.py 272-280
TocFont(item_count) ==
    IF item_count > 8 THEN [size |-> 14, spacing |-> 8]
    ELSE IF item_count > 5 THEN [size |-> 16, spacing |-> 12]
    ELSE [size |-> 20, spacing |-> 14]

\* logic.py 342-347
SlideTitleFont(len) == IF len > 50 THEN 24 ELSE IF len > 35 THEN 26 ELSE 28

\* Mutant: the middle band starts at 400 instead of above it.
ContentFontFrom400(total_chars) ==
    IF total_chars > 600 THEN [size |-> 12, spacing |-> 4]
    ELSE IF total_chars >= 400 THEN [size |-> 14, spacing |-> 6]
    ELSE [size |-> 16, spacing |-> 8]

\* logic.py 394-402
ContentFont(total_chars) ==
    IF total_chars > 600 THEN [size |-> 12, spacing |-> 4]
    ELSE IF total_chars > 400 THEN [size |-> 14, spacing |-> 6]
    ELSE [size |-> 16, spacing |-> 8]

\* logic.py 460-468
ConclusionFont(total_conc_chars) ==
    IF total_conc_chars > 500 THEN [size |-> 14, spacing |-> 8]
    ELSE IF total_conc_chars > 300 THEN [size |-> 16, spacing |-> 10]
    ELSE [size |-> 20, spacing |-> 14]

\* Mutant: the split point rounded down.
FloorHalf(n) == n \div 2

\* math.ceil(item_count / 2)
CeilHalf(n) == (n + 1) \div 2

--------------------------------------------------------------------------
(* Documents: the text the generator returns and create_ppt_file parses.   *)
(* A text is [kind, errPos, tree]: kind says what json.loads makes of it   *)
(* ("empty": None or "", "malformed": JSONDecodeError, "nonobject": JSON   *)
(* that is no object, "tree": a JSON object), errPos is the index of the   *)
(* first "Error:" in it (-1: none), tree is the object it denotes.         *)

SlideInfo(title, content, image_description) ==
    [title |-> title, content |-> content, image_description |-> image_description]

Tree(title, toc, ss, conclusion) ==
    [presentation_title |-> title, table_of_contents |-> toc, slides |-> ss,
     conclusion |-> conclusion]

EmptyTree == Tree(0, <<>>, <<>>, [title |-> 0, content |-> <<>>])

Text(kind, errPos, tree) == [kind |-> kind, errPos |-> errPos, tree |-> tree]

NoResponse == Text("empty", -1, EmptyTree)
NoDraft == Text("none", -1, EmptyTree)

\* Python truthiness of a response: None and "" are false.
Truthy(r) == r.kind # "empty"

\* Mutant: the marker is looked for from the second character on.
ErrorAfterFirst(r) == r.errPos >= 1 /\ r.errPos + 6 <= 10

\* "Error:" in response[:10]: the six characters lie within the first ten.
ErrorInFirst10(r) == r.errPos >= 0 /\ r.errPos + 6 <= 10

\* "Error:" in response
ErrorAnywhere(r) == r.errPos >= 0

\* json.loads raises JSONDecodeError
JsonDecodeFails(t) == t.kind \in {"empty", "malformed"}

\* json.loads(slide_data) when it does not raise.
JsonLoads(t) == [isDict |-> t.kind = "tree", value |-> t.tree]

\* Truthiness of slide_info.get("image_description"): absent and "" are false.
HasQuery(slide_info) == slide_info.image_description \notin {"absent", ""}

--------------------------------------------------------------------------
(* Inputs of the model. *)

\* Characters a theme colour is drawn from.
ColorAlphabet == {"#", "0", "F", "g", "-"}

\* The sequences over S of length at most n.
RECURSIVE SeqsUpTo(_, _)
SeqsUpTo(S, n) ==
    IF n = 0 THEN {<<>>}
    ELSE LET shorter == SeqsUpTo(S, n - 1)
         IN  shorter \cup {Append(q, x) : q \in {r \in shorter : Len(r) = n - 1}, x \in S}

Red == Str(<<"#", "F", "F", "0", "0", "0", "0">>)
Navy == Str(<<"#", "0", "0", "3", "3", "6", "6">>)
NotAColor == Str(<<"n", "o", "t", "a", "c", "o", "l", "o", "r">>)

\* st.color_picker always yields "#RRGGBB".
PickerColors == {Red, Navy}

TocTitles == {Word("Intro", 5), Word("Results", 7)}

\* Lengths that, summed over a slide's bullets, land on and around the
\* thresholds of the sizing rules.
BulletCores == {0, 1, 200, 400, 600}
BulletInputs ==
    {Bullet(l, c, t) : l \in 0..MaxPad, c \in BulletCores, t \in {0, 1}}

\* The slides a draft of the session is drawn from.
DraftSlides ==
    { SlideInfo(10, <<Bullet(0, 200, 0), Bullet(1, 200, 1)>>, "sunset"),
      SlideInfo(20, <<Bullet(2, 0, 0)>>, "absent"),
      SlideInfo(60, <<Bullet(0, 401, 0), Bullet(0, 200, 0)>>, "") }
DraftTocs == { [k \in 1..n |-> Word("Intro", 5)] : n \in {0, 4, MaxToc} }
DraftConclusions ==
    { [title |-> 10, content |-> <<Bullet(0, 100, 0), Bullet(0, 201, 0)>>],
      [title |-> 10, content |-> <<Bullet(1, 0, 1)>>] }
DraftTrees ==
    { Tree(20, toc, ss, c) :
        toc \in DraftTocs, ss \in SeqsUpTo(DraftSlides, MaxSlides), c \in DraftConclusions }

\* The drafts the generator returns in the session.
SessionTrees ==
    { Tree(20, toc, ss, [title |-> 10, content |-> <<Bullet(0, 100, 0)>>]) :
        toc \in { [k \in 1..n |-> Word("Intro", 5)] : n \in {1, 5} },
        ss \in SeqsUpTo(DraftSlides, 1) }

\* Where the first "Error:" of a generated text may lie.
ErrPositions == {-1, 0, 4, 5}

\* What generate_slide_content may return: nothing, or a text; a text that
\* begins with "Error:" is no JSON.
Responses ==
    {NoResponse}
    \cup {Text("malformed", e, EmptyTree) : e \in ErrPositions}
    \cup {Text("nonobject", e, EmptyTree) : e \in ErrPositions \ {0}}
    \cup {Text("tree", e, t) : e \in ErrPositions \ {0}, t \in SessionTrees}

\* The texts create_ppt_file may be called with.
SlideDataInputs ==
    {Text(k, -1, EmptyTree) : k \in {"empty", "malformed", "nonobject"}}
    \cup {Text("tree", -1, t) : t \in DraftTrees}

Prompts == {"yes", "Yes", "Y", "ok", "OK", "Looks Good", "shorter please"}

\* str.lower() on the prompts of the model.
Lower(p) ==
    CASE p = "Yes" -> "yes"
      [] p = "Y" -> "y"
      [] p = "OK" -> "ok"
      [] p = "Looks Good" -> "looks good"
      [] OTHER -> p

\* app.py 78
Affirmative(prompt) == Lower(prompt) \in {"yes", "y", "looks good", "ok"}

--------------------------------------------------------------------------
(* The slides of create_ppt_file. *)

TitleText(len) == Word("title", len)

\* logic.py 202-242: the top bar, the title, the subtitle.
TitleSlideOf(d, navy) ==
    Slide("Title",
          << Rectangle(0, 0, 10000, 500, navy),
             TextBox(1000, 2000, 8000, 1500,
                     << EmptyPara,
                        Para(TitleText(d.presentation_title), FALSE,
                             TitleFont(d.presentation_title), navy, 0, 0) >>),
             TextBox(1000, 3500, 8000, 1000,
                     << EmptyPara,
                        Para(Word("Generated by AI Agent", 21), FALSE, 20, DARK_GRAY, 0, 0) >>) >>,
          NoBackground)

\* logic.py 284-288 and 311-316: the items of each column text box.
TocColumns(toc_items) ==
    LET item_count == Len(toc_items)
        mid == CeilHalf(item_count)
    IN  IF item_count > 4
        THEN << SubSeq(toc_items, 1, mid), SubSeq(toc_items, mid + 1, item_count) >>
        ELSE << toc_items >>

\* The paragraphs of one column: "* item" at the ToC font and spacing.
TocParas(items, font) ==
    << EmptyPara >> \o
    [k \in DOMAIN items |-> Para(items[k], TRUE, font.size, DARK_GRAY, 0, font.spacing)]

\* logic.py 290-322: the column text boxes.
TocBoxes(toc_items) ==
    LET cols == TocColumns(toc_items)
        font == TocFont(Len(toc_items))
    IN  IF Len(cols) = 2
        THEN << TextBox(1000, 2000, 4000, 3000, TocParas(cols[1], font)),
                TextBox(5500, 2000, 4000, 3000, TocParas(cols[2], font)) >>
        ELSE << TextBox(2000, 2000, 6000, 3000, TocParas(cols[1], font)) >>

\* logic.py 245-322
TocSlideOf(toc_items, navy) ==
    Slide("Toc",
          << TextBox(500, 500, 9000, 1000,
                     << EmptyPara,
                        Para(Word("Table of Contents", 17), FALSE, 32, navy, 0, 0) >>),
             Rectangle(4000, 1500, 2000, 50, navy) >> \o TocBoxes(toc_items),
          NoBackground)

\* logic.py 328-355: a content slide with its title (in the frame's first
\* paragraph) and its separator.
ContentHead(slide_info, navy) ==
    Slide("Content",
          << TextBox(500, 300, 9000, 800,
                     << Para(TitleText(slide_info.title), FALSE,
                             SlideTitleFont(slide_info.title), navy, 0, 0) >>),
             Rectangle(500, 1100, 9000, 30, navy) >>,
          NoBackground)

\* logic.py 370-376
ContentWidth(has_image) == IF has_image THEN 5000 ELSE 9000

\* logic.py 380-412: the body text box.
ContentBox(slide_info, has_image) ==
    LET bullets == ContentBullets(slide_info.content)
        font == ContentFont(SumLen(bullets))
    IN  TextBox(500, 1400, ContentWidth(has_image), 3900,
                << EmptyPara >> \o
                [k \in DOMAIN bullets |->
                    Para(bullets[k], TRUE, font.size, DARK_GRAY, font.spacing, font.spacing)])

\* logic.py 372-374 and 422-425
ContentPicture(navy) == Picture(6000, 2000, 3500, navy)

\* logic.py 452-477: the conclusion's body; the points are taken as they are.
ConclusionBox(conc_points) ==
    LET font == ConclusionFont(SumLen(conc_points))
    IN  TextBox(1000, 1500, 8000, 3500,
                << EmptyPara >> \o
                [k \in DOMAIN conc_points |->
                    Para(conc_points[k], TRUE, font.size, DARK_GRAY, 0, font.spacing)])

\* logic.py 431-477
ConclusionSlideOf(conclusion_data, navy) ==
    Slide("Conclusion",
          << TextBox(500, 300, 9000, 800,
                     << Para(TitleText(conclusion_data.title), FALSE, 28, navy, 0, 0) >>),
             Rectangle(500, 1100, 9000, 30, navy),
             ConclusionBox(conclusion_data.content) >>,
          NoBackground)

\* logic.py 480-498
ClosingSlideOf(navy) ==
    Slide("Closing",
          << TextBox(2000, 2000, 6000, 2000,
                     << EmptyPara, Para(Word("Thank You", 9), FALSE, 54, WHITE, 0, 0) >>) >>,
          navy)

--------------------------------------------------------------------------
(* create_ppt_file, step by step. *)

\* Mutant: one more pass of the loop.
RetriesPlusOne == 3 + 1

\* fetch_image's retries parameter
Retries == 3

session == <<ppt_structure, response, display>>
args == <<slide_data, theme_color, include_images>>
fetch == <<img_url, img_data, attempt, waits, downloads>>

\* logic.py 155-161: json.loads; on JSONDecodeError return None; otherwise a
\* new Presentation.
Parse ==
    /\ pc = "parse"
    /\ IF JsonDecodeFails(slide_data)
       THEN /\ result' = "None"
            /\ pc' = "returned"
            /\ UNCHANGED data
       ELSE /\ data' = JsonLoads(slide_data)
            /\ pc' = "theme"
            /\ UNCHANGED result
    /\ UNCHANGED <<session, args, NAVY_BLUE, slides, i, fetch, requests,
                   pexels_api_key, files, saved>>

\* logic.py 173-178
ThemeStep ==
    /\ pc = "theme"
    /\ NAVY_BLUE' = ResolveTheme(theme_color)
    /\ pc' = "title"
    /\ UNCHANGED <<session, args, data, slides, i, fetch, requests,
                   pexels_api_key, files, saved, result>>

\* logic.py 202-242: the title slide.  The slide and its bar are added before
\* data.get is first called, which raises AttributeError on a value that is
\* no dict.
TitleStep ==
    /\ pc = "title"
    /\ IF data.isDict
       THEN /\ slides' = Append(slides, TitleSlideOf(data.value, NAVY_BLUE))
            /\ pc' = "toc"
            /\ UNCHANGED result
       ELSE /\ slides' = Append(slides,
                    Slide("Title", <<Rectangle(0, 0, 10000, 500, NAVY_BLUE)>>, NoBackground))
            /\ result' = "exception"
            /\ pc' = "raised"
    /\ UNCHANGED <<session, args, data, NAVY_BLUE, i, fetch, requests,
                   pexels_api_key, files, saved>>

\* logic.py 245-326: the table of contents; then the loop starts.
TocStep ==
    /\ pc = "toc"
    /\ slides' = Append(slides, TocSlideOf(data.value.table_of_contents, NAVY_BLUE))
    /\ i' = 0
    /\ pc' = "content"
    /\ UNCHANGED <<session, args, data, NAVY_BLUE, fetch, requests,
                   pexels_api_key, files, saved, result>>

\* logic.py 327-360: the next content slide, its title and separator.
ContentBegin ==
    /\ pc = "content"
    /\ i < Len(data.value.slides)
    /\ slides' = Append(slides, ContentHead(data.value.slides[i + 1], NAVY_BLUE))
    /\ img_data' = "None"
    /\ img_url' = "None"
    /\ attempt' = 0
    /\ waits' = <<>>
    /\ downloads' = 0
    /\ pc' = "search"
    /\ UNCHANGED <<session, args, data, NAVY_BLUE, i, requests,
                   pexels_api_key, files, saved, result>>

\* generate_image's result for what the search request did: logic.py 136-150.
SearchResult(outcome) == IF outcome = "found" THEN "url" ELSE "None"

\* logic.py 361-364 with generate_image (115-150): no request without a
\* query, with images off or without an API key; otherwise one request,
\* which finds a photo, finds none, answers another status or raises.
Search ==
    /\ pc = "search"
    /\ IF include_images /\ HasQuery(data.value.slides[i + 1])
       THEN IF pexels_api_key
            THEN \E outcome \in {"found", "zero", "status", "exception"} :
                    /\ img_url' = SearchResult(outcome)
                    /\ requests' = requests + 1
                    /\ pc' = IF SearchResult(outcome) # "None" THEN "fetch" ELSE "layout"
            ELSE /\ img_url' = "None"
                 /\ pc' = "layout"
                 /\ UNCHANGED requests
       ELSE /\ pc' = "layout"
            /\ UNCHANGED <<img_url, requests>>
    /\ UNCHANGED <<session, args, data, NAVY_BLUE, slides, i, img_data, attempt,
                   waits, downloads, pexels_api_key, files, saved, result>>

\* logic.py 187-196: one pass of fetch_image's loop up to its sleep.  A 200
\* answer returns its body, whatever it holds; another status or an
\* exception goes on to the sleep.
FetchAttempt ==
    /\ pc = "fetch"
    /\ attempt < Retries
    /\ downloads' = downloads + 1
    /\ requests' = requests + 1
    /\ \E outcome \in {"image", "garbage", "status", "exception"} :
          IF outcome \in {"image", "garbage"}
          THEN /\ img_data' = outcome
               /\ pc' = "layout"
          ELSE /\ pc' = "sleep"
               /\ UNCHANGED img_data
    /\ UNCHANGED <<session, args, data, NAVY_BLUE, slides, i, img_url, attempt,
                   waits, pexels_api_key, files, saved, result>>

\* logic.py 197-199: time.sleep(1 * (attempt + 1)) after a failed attempt,
\* then the next pass, or None when the loop is exhausted.
FetchSleep ==
    /\ pc = "sleep"
    /\ waits' = Append(waits, 1 * (attempt + 1))
    /\ attempt' = attempt + 1
    /\ pc' = IF attempt + 1 < Retries THEN "fetch" ELSE "layout"
    /\ UNCHANGED <<session, args, data, NAVY_BLUE, slides, i, img_url, img_data,
                   downloads, requests, pexels_api_key, files, saved, result>>

\* logic.py 367-412: has_image, the body text box and its bullets.
Layout ==
    /\ pc = "layout"
    /\ LET has_image == img_data # "None"
       IN  /\ slides' = SetLast(slides,
                 AddShape(slides[Len(slides)],
                          ContentBox(data.value.slides[i + 1], has_image)))
           /\ IF has_image
              THEN /\ pc' = "place"
                   /\ UNCHANGED i
              ELSE /\ pc' = "content"
                   /\ i' = i + 1
    /\ UNCHANGED <<session, args, data, NAVY_BLUE, fetch, requests,
                   pexels_api_key, files, saved, result>>

\* What the try block of logic.py 417-426 does with the bytes: they are
\* written to the temp file, and add_picture raises on bytes that are no
\* image it can read.
PlaceOutcomes(bytes) ==
    IF bytes = "image" THEN {"placed"} ELSE {"picture_fails"}

\* The temp files after the try block: the file is written, and removed only
\* on the path that reaches os.remove.
FilesAfterPlace(fs, k, outcome) ==
    IF outcome = "placed" THEN fs \ {k} ELSE fs \cup {k}

\* Mutant: the try block without its except clause; a failed placement
\* leaves create_ppt_file with the exception.
PlaceUncaught ==
    /\ pc = "place"
    /\ \E outcome \in PlaceOutcomes(img_data) :
          /\ files' = FilesAfterPlace(files, i, outcome)
          /\ IF outcome = "placed"
             THEN /\ slides' = SetLast(slides,
                        AddShape(slides[Len(slides)], ContentPicture(NAVY_BLUE)))
                  /\ i' = i + 1
                  /\ pc' = "content"
                  /\ UNCHANGED result
             ELSE /\ result' = "exception"
                  /\ pc' = "raised"
                  /\ UNCHANGED <<slides, i>>
    /\ UNCHANGED <<session, args, data, NAVY_BLUE, fetch, requests,
                   pexels_api_key, saved>>

\* logic.py 415-428: the picture, through a temp file; any exception is
\* caught and printed.
Place ==
    /\ pc = "place"
    /\ \E outcome \in PlaceOutcomes(img_data) :
          /\ files' = FilesAfterPlace(files, i, outcome)
          /\ slides' = IF outcome = "placed"
                       THEN SetLast(slides,
                                AddShape(slides[Len(slides)], ContentPicture(NAVY_BLUE)))
                       ELSE slides
    /\ i' = i + 1
    /\ pc' = "content"
    /\ UNCHANGED <<session, args, data, NAVY_BLUE, fetch, requests,
                   pexels_api_key, saved, result>>

\* Mutant: the loop over the content slides stops one entry early.
ContentEndEarly ==
    /\ pc = "content"
    /\ i + 1 >= Len(data.value.slides)
    /\ pc' = "conclusion"
    /\ UNCHANGED <<session, args, data, NAVY_BLUE, slides, i, fetch, requests,
                   pexels_api_key, files, saved, result>>

\* logic.py 327: the loop is over.
ContentEnd ==
    /\ pc = "content"
    /\ i >= Len(data.value.slides)
    /\ pc' = "conclusion"
    /\ UNCHANGED <<session, args, data, NAVY_BLUE, slides, i, fetch, requests,
                   pexels_api_key, files, saved, result>>

\* logic.py 431-477
ConclusionStep ==
    /\ pc = "conclusion"
    /\ slides' = Append(slides, ConclusionSlideOf(data.value.conclusion, NAVY_BLUE))
    /\ pc' = "closing"
    /\ UNCHANGED <<session, args, data, NAVY_BLUE, i, fetch, requests,
                   pexels_api_key, files, saved, result>>

\* logic.py 480-498
ClosingStep ==
    /\ pc = "closing"
    /\ slides' = Append(slides, ClosingSlideOf(NAVY_BLUE))
    /\ pc' = "save"
    /\ UNCHANGED <<session, args, data, NAVY_BLUE, i, fetch, requests,
                   pexels_api_key, files, saved, result>>

\* logic.py 501-504
Save ==
    /\ pc = "save"
    /\ saved' = TRUE
    /\ result' = "filename"
    /\ pc' = "returned"
    /\ UNCHANGED <<session, args, data, NAVY_BLUE, slides, i, fetch, requests,
                   pexels_api_key, files>>

Render ==
    \/ Parse \/ ThemeStep \/ TitleStep \/ TocStep
    \/ ContentBegin \/ Search \/ FetchAttempt \/ FetchSleep \/ Layout \/ Place
    \/ ContentEnd \/ ConclusionStep \/ ClosingStep \/ Save

--------------------------------------------------------------------------
(* The chat handler of app.py. *)

Show(kind, content) == [kind |-> kind, content |-> content]

\* No call of create_ppt_file is in progress: its arguments and locals.
NoCall ==
    /\ slide_data = NoDraft
    /\ theme_color = Navy
    /\ include_images = TRUE
    /\ data = JsonLoads(NoDraft)
    /\ NAVY_BLUE = FallbackNavy
    /\ slides = <<>>
    /\ i = 0
    /\ img_url = "None"
    /\ img_data = "None"
    /\ attempt = 0
    /\ waits = <<>>
    /\ downloads = 0
    /\ requests = 0
    /\ saved = FALSE
    /\ result = "none"

\* The state of a call create_ppt_file(text, include_images=images, theme_color=tc)
\* at its first statement.
Called(text, images, tc) ==
    /\ pc = "parse"
    /\ slide_data = text
    /\ theme_color = tc
    /\ include_images = images
    /\ data = JsonLoads(NoDraft)
    /\ NAVY_BLUE = FallbackNavy
    /\ slides = <<>>
    /\ i = 0
    /\ img_url = "None"
    /\ img_data = "None"
    /\ attempt = 0
    /\ waits = <<>>
    /\ downloads = 0
    /\ requests = 0
    /\ saved = FALSE
    /\ result = "running"

call == <<slide_data, theme_color, include_images, data, NAVY_BLUE, slides, i,
          img_url, img_data, attempt, waits, downloads, requests, saved, result>>

\* app.py 58-73: the first generation.  A response with "Error:" in its
\* first ten characters is shown as an error; any other non-empty response
\* becomes the draft.
UserTurnGenerate ==
    /\ pc = "idle"
    /\ ppt_structure = NoDraft
    /\ \E r \in Responses :
          /\ response' = r
          /\ IF Truthy(r) /\ ErrorInFirst10(r)
             THEN /\ display' = Show("error", r)
                  /\ UNCHANGED ppt_structure
             ELSE IF Truthy(r)
             THEN /\ ppt_structure' = r
                  /\ display' = Show("draft", r)
             ELSE /\ display' = Show("unknown error", NoResponse)
                  /\ UNCHANGED ppt_structure
    /\ UNCHANGED <<pc, call, pexels_api_key, files>>

\* app.py 100-113: feedback on the draft.  A non-empty response without
\* "Error:" anywhere replaces the draft; any other is shown as an error.
UserTurnFeedback ==
    /\ pc = "idle"
    /\ ppt_structure # NoDraft
    /\ \E prompt \in Prompts, r \in Responses :
          /\ ~Affirmative(prompt)
          /\ response' = r
          /\ IF Truthy(r) /\ ~ErrorAnywhere(r)
             THEN /\ ppt_structure' = r
                  /\ display' = Show("draft", r)
             ELSE /\ display' = Show("error", r)
                  /\ UNCHANGED ppt_structure
    /\ UNCHANGED <<pc, call, pexels_api_key, files>>

\* app.py 78-82: the user accepts the draft; the handler announces the build
\* and calls create_ppt_file with the draft, include_images=True and the
\* colour of the picker.
UserTurnYes ==
    /\ pc = "idle"
    /\ ppt_structure # NoDraft
    /\ \E prompt \in Prompts, tc \in PickerColors :
          /\ Affirmative(prompt)
          /\ pc' = "parse"
          /\ slide_data' = ppt_structure
          /\ theme_color' = tc
    /\ display' = Show("building", NoResponse)
    /\ response' = NoDraft
    /\ include_images' = TRUE
    /\ result' = "running"
    /\ UNCHANGED <<ppt_structure, data, NAVY_BLUE, slides, i, fetch, requests,
                   pexels_api_key, files, saved>>

\* The locals of the call are gone.
EndCall ==
    /\ pc' = "idle"
    /\ slide_data' = NoDraft
    /\ theme_color' = Navy
    /\ include_images' = TRUE
    /\ data' = JsonLoads(NoDraft)
    /\ NAVY_BLUE' = FallbackNavy
    /\ slides' = <<>>
    /\ i' = 0
    /\ img_url' = "None"
    /\ img_data' = "None"
    /\ attempt' = 0
    /\ waits' = <<>>
    /\ downloads' = 0
    /\ requests' = 0
    /\ saved' = FALSE
    /\ result' = "none"

\* app.py 84-97: with a filename the deck is offered and the draft reset;
\* with None the failure is shown and the draft kept.
RenderReturn ==
    /\ pc = "returned"
    /\ IF result = "filename"
       THEN /\ display' = Show("ready", NoResponse)
            /\ ppt_structure' = NoDraft
       ELSE /\ display' = Show("failed", NoResponse)
            /\ UNCHANGED ppt_structure
    /\ EndCall
    /\ UNCHANGED <<response, pexels_api_key, files>>

\* app.py 82: an exception of create_ppt_file is not caught; the script run
\* ends with the traceback shown and the session state as it was.
RenderRaise ==
    /\ pc = "raised"
    /\ display' = Show("traceback", NoResponse)
    /\ EndCall
    /\ UNCHANGED <<ppt_structure, response, pexels_api_key, files>>

--------------------------------------------------------------------------
(* Specifications. *)

\* The session: app.py 32-35, logic.py 24.
Init ==
    /\ ppt_structure = NoDraft
    /\ response = NoDraft
    /\ display = Show("greeting", NoResponse)
    /\ pc = "idle"
    /\ NoCall
    /\ pexels_api_key \in BOOLEAN
    /\ files = {}

Next ==
    \/ UserTurnGenerate \/ UserTurnFeedback \/ UserTurnYes
    \/ RenderReturn \/ RenderRaise
    \/ Render

Spec == Init /\ [][Next]_vars

\* create_ppt_file called with any arguments, on a disk that may hold temp
\* files of earlier calls.
InitRender ==
    /\ ppt_structure = NoDraft
    /\ response = NoDraft
    /\ display = Show("greeting", NoResponse)
    /\ \E text \in SlideDataInputs, images \in BOOLEAN, tc \in {Red, NotAColor} :
          Called(text, images, tc)
    /\ pexels_api_key \in BOOLEAN
    /\ files = {}

SpecRender == InitRender /\ [][Render]_vars

\* The theme colour alone: the call stands at logic.py 173 with any colour.
InitColor ==
    /\ ppt_structure = NoDraft
    /\ response = NoDraft
    /\ display = Show("greeting", NoResponse)
    /\ \/ \E n \in 0..MaxColorLen : \E chars \in [1..n -> ColorAlphabet] :
             Called(Text("tree", -1, EmptyTree), TRUE, Str(chars))
       \/ Called(Text("tree", -1, EmptyTree), TRUE, NotAString)
    /\ pexels_api_key = TRUE
    /\ files = {}

NextColor == Parse \/ ThemeStep

SpecColor == InitColor /\ [][NextColor]_vars

\* The table of contents alone: any list of items.
InitToc ==
    /\ ppt_structure = NoDraft
    /\ response = NoDraft
    /\ display = Show("greeting", NoResponse)
    /\ \E n \in 0..MaxToc : \E toc \in [1..n -> TocTitles] :
          Called(Text("tree", -1, Tree(20, toc, <<>>, [title |-> 10, content |-> <<>>])),
                 TRUE, Red)
    /\ pexels_api_key = TRUE
    /\ files = {}

NextToc == Parse \/ ThemeStep \/ TitleStep \/ TocStep

SpecToc == InitToc /\ [][NextToc]_vars

\* The body of one content slide: the call stands at logic.py 367 on its
\* first content slide, with any bullets, any title length, and with or
\* without downloaded bytes.
InitSizing ==
    /\ ppt_structure = NoDraft
    /\ response = NoDraft
    /\ display = Show("greeting", NoResponse)
    /\ pexels_api_key = TRUE
    /\ files = {}
    /\ \E n \in 0..MaxBullets : \E content \in [1..n -> BulletInputs] :
       \E title \in {10, 60}, bytes \in {"None", "image"} :
          LET info == SlideInfo(title, content, "sunset")
              tree == Tree(20, <<>>, <<info>>, [title |-> 10, content |-> <<>>])
              navy == ResolveTheme(Red)
          IN  /\ pc = "layout"
              /\ slide_data = Text("tree", -1, tree)
              /\ theme_color = Red
              /\ include_images = TRUE
              /\ data = JsonLoads(Text("tree", -1, tree))
              /\ NAVY_BLUE = navy
              /\ slides = << TitleSlideOf(tree, navy), TocSlideOf(<<>>, navy),
                             ContentHead(info, navy) >>
              /\ i = 0
              /\ img_url = "url"
              /\ img_data = bytes
              /\ attempt = IF bytes = "None" THEN Retries ELSE 0
              /\ waits = IF bytes = "None" THEN <<1, 2, 3>> ELSE <<>>
              /\ downloads = IF bytes = "None" THEN 3 ELSE 1
              /\ requests = IF bytes = "None" THEN 4 ELSE 2
              /\ saved = FALSE
              /\ result = "running"

NextSizing == Layout

SpecSizing == InitSizing /\ [][NextSizing]_vars

--------------------------------------------------------------------------
(* What the claims read of a deck. *)

Kinds(ss) == [k \in DOMAIN ss |-> ss[k].kind]

\* Title, Table of Contents, n content slides, Conclusion, Closing.
ExpectedKinds(n) ==
    <<"Title", "Toc">> \o [k \in 1..n |-> "Content"] \o <<"Conclusion", "Closing">>

IsGlyph(p) == p.glyph
IsTextBox(sh) == sh.type = "TextBox"
IsPicture(sh) == sh.type = "Picture"

\* The texts of a text box's bulleted paragraphs, in order.
Items(box) ==
    LET ps == SelectSeq(box.paras, IsGlyph) IN [k \in DOMAIN ps |-> ps[k].text]

\* The input of the call in progress is a content tree.
IsTreeCall == slide_data.kind = "tree"
InputSlides == slide_data.tree.slides
InputToc == slide_data.tree.table_of_contents

--------------------------------------------------------------------------
(* C1: for every slide_data that parses into a content tree with N entries *)
(* in 'slides', whatever the length of the table of contents and whatever  *)
(* the image searches and downloads do, create_ppt_file emits exactly N+4  *)
(* slides in the order Title, Table of Contents, the N content slides in   *)
(* input order, Conclusion, Closing: at every moment the slides built are  *)
(* a prefix of that order, and at the return they are all of it.           *)
C1_SlideOrder ==
    IsTreeCall =>
        LET n == Len(InputSlides)
        IN  /\ Len(slides) <= n + 4
            /\ Kinds(slides) = SubSeq(ExpectedKinds(n), 1, Len(slides))
            /\ \A k \in 1..n :
                  k + 2 <= Len(slides) =>
                      slides[k + 2].shapes[1].paras[1].text = TitleText(InputSlides[k].title)
            /\ pc = "returned" => Len(slides) = n + 4

\* A deck of two different content slides was returned for an empty table
\* of contents, after a download that failed and a placement that failed.
C1_Witness ==
    /\ pc = "returned"
    /\ result = "filename"
    /\ Len(InputSlides) = 2
    /\ InputSlides[1] # InputSlides[2]
    /\ InputToc = <<>>
    /\ files # {}
    /\ Len(slides) = 6

--------------------------------------------------------------------------
\* The table of contents slide of the call.
TocSlideBuilt == IsTreeCall /\ Len(slides) >= 2 /\ slides[2].kind = "Toc"

\* The column text boxes of the ToC slide: its text boxes after the title.
TocColumnBoxes == Tail(SelectSeq(slides[2].shapes, IsTextBox))

(* C3: for a table of contents of n items, if n <= 4 the ToC slide has a   *)
(* single column text box holding all n items in input order; if n > 4 it  *)
(* has exactly two column text boxes, the first holding the first          *)
(* ceil(n/2) items and the second the remaining floor(n/2), in input       *)
(* order, no item lost or duplicated.                                      *)
C3_TocColumns ==
    TocSlideBuilt =>
        LET n == Len(InputToc)
            cols == TocColumnBoxes
        IN  IF n <= 4
            THEN /\ Len(cols) = 1
                 /\ Items(cols[1]) = InputToc
            ELSE /\ Len(cols) = 2
                 /\ Len(Items(cols[1])) = n - (n \div 2)
                 /\ Len(Items(cols[2])) = n \div 2
                 /\ Items(cols[1]) \o Items(cols[2]) = InputToc

\* A ToC of five items, not all the same, was split three and two.
C3_Witness ==
    /\ TocSlideBuilt
    /\ Len(InputToc) = 5
    /\ InputToc[3] # InputToc[4]
    /\ Len(TocColumnBoxes) = 2
    /\ Len(Items(TocColumnBoxes[1])) = 3
    /\ Len(Items(TocColumnBoxes[2])) = 2

--------------------------------------------------------------------------
\* A content slide has its title box and its body box.
HasBody(s) == Len(SelectSeq(s.shapes, IsTextBox)) >= 2

(* C5: image failures never abort the render: for a content tree, whatever *)
(* the searches, the downloads and the placements do, create_ppt_file      *)
(* raises nothing, can always take its next step until it returns, has     *)
(* built every content slide with its body when it returns, has saved the  *)
(* deck and returns its filename.                                          *)
C5_ImageFailuresAbsorbed ==
    IsTreeCall =>
        /\ result # "exception"
        /\ pc # "raised"
        /\ pc \notin {"idle", "returned"} => ENABLED Render
        /\ pc = "returned" =>
              /\ result = "filename"
              /\ saved
              /\ Len(slides) = Len(InputSlides) + 4
              /\ \A k \in 1..Len(InputSlides) : HasBody(slides[k + 2])

\* A deck was returned although the first content slide's placement failed
\* and the last one's download failed three times.
C5_Witness ==
    /\ pc = "returned"
    /\ result = "filename"
    /\ saved
    /\ Len(InputSlides) = 2
    /\ 0 \in files
    /\ img_url = "url"
    /\ img_data = "None"
    /\ downloads = 3

--------------------------------------------------------------------------
\* A content slide is complete: the loop is back at its head.
SlideDone == IsTreeCall /\ pc = "content" /\ i > 0

LastSlide == slides[Len(slides)]
BodyWidth(s) == SelectSeq(s.shapes, IsTextBox)[2].w
HasPicture(s) == SelectSeq(s.shapes, IsPicture) # <<>>

(* C2: on every content slide, when no image is available (no query,       *)
(* images off, nothing found, download failed) the body text box is 9      *)
(* units wide and the slide has no picture; when the download returned     *)
(* bytes the body is 5 units wide and a picture shape is on the slide.     *)
(* Read when a content slide is complete: the loop is back at its head and *)
(* img_data is still that slide's.                                         *)
C2_WidthFollowsImage ==
    SlideDone =>
        IF img_data = "None"
        THEN BodyWidth(LastSlide) = 9000 /\ ~HasPicture(LastSlide)
        ELSE BodyWidth(LastSlide) = 5000 /\ HasPicture(LastSlide)

--------------------------------------------------------------------------
\* The body of the first content slide, once Layout has built it.
BodyBuilt == IsTreeCall /\ pc \in {"place", "content"} /\ Len(slides) = 3

BodyParas == SelectSeq(SelectSeq(slides[3].shapes, IsTextBox)[2].paras, IsGlyph)

\* The summed length of the bullets the body shows.
BodyChars == SumLen([k \in DOMAIN BodyParas |-> BodyParas[k].text])

BodySet(size, spacing) ==
    \A k \in DOMAIN BodyParas :
        /\ BodyParas[k].size = size
        /\ BodyParas[k].space_before = spacing
        /\ BodyParas[k].space_after = spacing

(* C4, as claimed: on every content slide the body font size and paragraph *)
(* spacing follow from the summed character count S of the slide's         *)
(* bullets alone: S > 600 gives 12pt/4pt, S in 400..600 gives 14pt/6pt,    *)
(* S < 400 gives 16pt/8pt.                                                 *)
C4_BandsAsClaimed ==
    BodyBuilt =>
        /\ BodyChars > 600 => BodySet(12, 4)
        /\ (BodyChars >= 400 /\ BodyChars <= 600) => BodySet(14, 6)
        /\ BodyChars < 400 => BodySet(16, 8)

(* C4, amended: with S the summed length of the bullets as the body shows  *)
(* them (stripped, blank ones dropped, the placeholder if none is left),   *)
(* S > 600 gives 12pt/4pt, 400 < S <= 600 gives 14pt/6pt and S <= 400      *)
(* gives 16pt/8pt, whatever the title, and with or without an image: the   *)
(* size is non-increasing in S, and S = 400 still has the largest size.    *)
C4_Bands ==
    BodyBuilt =>
        /\ BodyChars > 600 => BodySet(12, 4)
        /\ (BodyChars > 400 /\ BodyChars <= 600) => BodySet(14, 6)
        /\ BodyChars <= 400 => BodySet(16, 8)

\* A body of exactly 400 characters beside an image was set in 16pt/8pt.
C4_Witness ==
    /\ BodyBuilt
    /\ BodyChars = 400
    /\ img_data # "None"
    /\ BodyWidth(slides[3]) = 5000
    /\ BodySet(16, 8)
    /\ Len(BodyParas) = 2

--------------------------------------------------------------------------
\* fetch_image was called for slide i; it has returned.
FetchCalled == IsTreeCall /\ img_url = "url" /\ pc \notin {"search", "idle"}
FetchReturned == FetchCalled /\ pc \notin {"fetch", "sleep"}

LinearWaits == waits = [k \in 1..Len(waits) |-> k]

(* C6, as claimed: fetch_image makes at most 3 requests for a URL, stops   *)
(* at the first 200 answer and returns its bytes, waits 1s, 2s, 3s, each   *)
(* wait between two attempts, and after the 3rd failed attempt returns     *)
(* None without raising.  A wait between attempts is followed by an        *)
(* attempt, so a finished call has made more attempts than waits.          *)
C6_WaitsBetweenAttempts ==
    /\ FetchCalled => downloads <= 3 /\ LinearWaits
    /\ FetchReturned =>
          /\ Len(waits) < downloads
          /\ img_data = "None" => downloads = 3
          /\ result # "exception"

(* C6, amended: fetch_image makes at most 3 requests for a URL; a status   *)
(* other than 200 or an exception is a failed attempt; every failed        *)
(* attempt, the last one too, is followed by a wait, of 1s, 2s, 3s in      *)
(* turn; the first 200 answer ends the call with its bytes and no further  *)
(* request or wait; after the 3rd failed attempt and its 3s wait the call  *)
(* returns None without raising.                                           *)
C6_BoundedRetry ==
    /\ FetchCalled =>
          /\ downloads <= 3
          /\ LinearWaits
          /\ Len(waits) = attempt
          /\ pc = "sleep" => downloads = attempt + 1
          /\ pc = "fetch" => downloads = attempt /\ attempt < 3 /\ img_data = "None"
    /\ FetchReturned =>
          /\ result # "exception"
          /\ img_data # "None" => downloads = Len(waits) + 1
          /\ img_data = "None" => downloads = 3 /\ waits = <<1, 2, 3>>

\* The third attempt failed, the call waited 3s and returned None.
C6_Witness ==
    /\ FetchReturned
    /\ pc = "layout"
    /\ img_data = "None"
    /\ downloads = 3
    /\ waits = <<1, 2, 3>>

--------------------------------------------------------------------------
(* C7: if slide_data does not parse into a content tree, create_ppt_file   *)
(* aborts before any other step: no image request is issued, no slide is   *)
(* built, no deck is saved, and None is returned, not an exception.        *)
C7_ParseFailureAborts ==
    (pc # "idle" /\ ~IsTreeCall) =>
        /\ requests = 0
        /\ slides = <<>>
        /\ ~saved
        /\ result \in {"running", "None"}
        /\ pc \notin {"parse", "theme", "title"} => pc = "returned" /\ result = "None"

--------------------------------------------------------------------------
\* The text begins with the error marker.
BeginsWithError(r) == Truthy(r) /\ r.errPos = 0

\* A turn that receives such a text keeps the draft and shows the text.
C8_ErrorTurn ==
    (BeginsWithError(response') /\ (UserTurnGenerate \/ UserTurnFeedback)) =>
        /\ ppt_structure' = ppt_structure
        /\ display' = Show("error", response')

(* C8: over any sequence of turns, a generator output that begins with     *)
(* "Error:" is never stored as the draft and never handed to               *)
(* create_ppt_file; in the turn that receives it the draft keeps its       *)
(* value and the output is shown to the user as it is.                     *)
C8_ErrorIsNoDraft ==
    /\ [](~BeginsWithError(ppt_structure) /\ ~BeginsWithError(slide_data))
    /\ [][C8_ErrorTurn]_vars

\* A feedback turn received an error text: it is on display and the draft
\* is still there.
C8_Witness ==
    /\ pc = "idle"
    /\ BeginsWithError(response)
    /\ display = Show("error", response)
    /\ ppt_structure # NoDraft
    /\ ppt_structure.kind = "tree"

--------------------------------------------------------------------------
\* "#RRGGBB": a '#' and six hexadecimal digits.
WellFormedColor(tc) ==
    /\ tc.isStr
    /\ Len(tc.chars) = 7
    /\ tc.chars[1] = "#"
    /\ \A k \in 2..7 : IsHexDigit(tc.chars[k])

Byte(c, d) == 16 * HexVal(c) + HexVal(d)

(* C9: for every theme_color the primary colour is a valid RGB triple; a   *)
(* well-formed "#RRGGBB" gives exactly that triple; every other value      *)
(* (too short, too long, no hex digits, no string) gives (0,51,102).       *)
C9_ThemeResolution ==
    (pc = "title") =>
        /\ Len(NAVY_BLUE) = 3
        /\ \A k \in 1..3 : NAVY_BLUE[k] \in 0..255
        /\ IF WellFormedColor(theme_color)
           THEN LET c == theme_color.chars
                IN  NAVY_BLUE = <<Byte(c[2], c[3]), Byte(c[4], c[5]), Byte(c[6], c[7])>>
           ELSE NAVY_BLUE = <<0, 51, 102>>

--------------------------------------------------------------------------
(* C10: a temp file that stages a slide's image is removed before that     *)
(* slide's construction ends, on every path, also when placing the picture *)
(* fails: outside the placement step no temp_img_<i>.jpg is on the disk.   *)
C10_NoTempFileLeft ==
    pc # "place" => files = {}

--------------------------------------------------------------------------
\* The text boxes of a slide, in the order they were added: the title's
\* first, then the body's.
TextBoxes(s) == SelectSeq(s.shapes, IsTextBox)

\* The bulleted bodies the deck holds so far, each with the bullets the
\* input gave for it and the font its sum of characters selects: the body
\* of every content slide that has one, and the conclusion's.
BulletedBodies ==
    { [box |-> TextBoxes(slides[k])[2],
       input |-> InputSlides[k - 2].content,
       size |-> ContentFont(SumLen(Items(TextBoxes(slides[k])[2]))).size] :
        k \in { j \in DOMAIN slides :
                  slides[j].kind = "Content" /\ Len(TextBoxes(slides[j])) >= 2 } }
    \cup
    { [box |-> TextBoxes(slides[k])[2],
       input |-> slide_data.tree.conclusion.content,
       size |-> ConclusionFont(
                    SumLen(SelectSeq(slide_data.tree.conclusion.content, NonBlank))).size] :
        k \in { j \in DOMAIN slides : slides[j].kind = "Conclusion" } }

\* The body shows the non-blank bullets of the input, in order, or the one
\* placeholder when there is none, at the font of their summed length.
BlanksDiscarded(body) ==
    LET shown == Items(body.box)
        kept == SelectSeq(body.input, NonBlank)
    IN  /\ IF kept = <<>>
           THEN shown = <<NoContentBullet>>
           ELSE /\ Len(shown) = Len(kept)
                /\ \A k \in DOMAIN kept : Strip(shown[k]) = Strip(kept[k])
        /\ \A k \in DOMAIN body.box.paras :
              body.box.paras[k].glyph => body.box.paras[k].size = body.size

(* C11: in every bulleted body of the deck (each content slide's and the   *)
(* conclusion's) the blank and whitespace-only bullets of the input are    *)
(* dropped before the characters are summed and before the paragraphs are  *)
(* written, and an empty or all-blank list shows exactly the one           *)
(* placeholder bullet "(No content generated)", never an empty body.       *)
C11_BlankBulletsDiscarded ==
    IsTreeCall => \A body \in BulletedBodies : BlanksDiscarded(body)

--------------------------------------------------------------------------
IsRectangle(sh) == sh.type = "Rectangle"

\* The title of a slide is the first text box added to it.
TitleBox(s) == TextBoxes(s)[1]

\* The rules of a slide: its rectangles whose top edge is the bottom edge
\* of the title's box.
Separators(s) ==
    { s.shapes[k] : k \in { j \in DOMAIN s.shapes :
                              /\ IsRectangle(s.shapes[j])
                              /\ TextBoxes(s) # <<>>
                              /\ s.shapes[j].y = TitleBox(s).y + TitleBox(s).h } }

AllSeparators == UNION { Separators(slides[k]) : k \in DOMAIN slides }

(* C12: every slide of the deck (Title, Table of Contents, each content    *)
(* slide, Conclusion, Closing) has a separator rectangle directly beneath  *)
(* its title, every separator is filled with the theme's primary colour,   *)
(* and all separators of the deck have one and the same thickness.         *)
C12_SeparatorUnderEveryTitle ==
    IsTreeCall =>
        /\ \A k \in DOMAIN slides : Separators(slides[k]) # {}
        /\ \A r \in AllSeparators : r.fill = NAVY_BLUE
        /\ \A r1, r2 \in AllSeparators : r1.h = r2.h

==========================================================================
